---- MODULE Spec2Model ----
(***************************************************************************)
(* Model of the sudoku solver of src/main.rs: solve, eliminate and         *)
(* depth_first_search, executed as an explicit call stack.                 *)
(***************************************************************************)
EXTENDS Integers, Sequences, FiniteSets, TLC

VARIABLES
    entry,   \* the function the caller invoked: "solve" or "depth_first_search"
    input,   \* the Board the caller passed to that function
    stack,   \* activations of solve (with its eliminate / depth_first_search)
    ret,     \* the Result a callee has just returned, NoRet when none is pending
    run,     \* 1 for the caller's first call, 2 for its call on the first output
    out1     \* the Result of the first call once the second has started

vars == <<entry, input, stack, ret, run, out1>>

----------------------------------------------------------------------------
(* Cells and boards *)

Cells == 0..80

Hints == 1..9

Solved(n) == [tag |-> "Solved", n |-> n, hints |-> {}]

NotSolved(h) == [tag |-> "NotSolved", n |-> 0, hints |-> h]

IsSolved(c) == c.tag = "Solved"

\* impl From<u8> for Cell (a value above 9 panics and is never produced by open)
CellFrom(b) == IF b = 0 THEN NotSolved(Hints) ELSE Solved(b)

\* open: the 81 digits of the file become the 81 cells, in order
BoardFrom(digits) == [i \in Cells |-> CellFrom(digits[i + 1])]

RowOf(i) == i \div 9

ColOf(i) == i % 9

\* (row * 9)..((row + 1) * 9)
RowCells(i) == (RowOf(i) * 9)..(((RowOf(i) + 1) * 9) - 1)

\* (col..81).step_by(9)
ColCells(i) == {ColOf(i) + (9 * k) : k \in 0..8}

BlockRow(i) == (RowOf(i) \div 3) * 3

BlockCol(i) == (ColOf(i) \div 3) * 3

\* row in row..row + 3, col in col..col + 3, cell row * 9 + col
BlockCells(i) ==
    {(r * 9) + c : r \in BlockRow(i)..(BlockRow(i) + 2),
                   c \in BlockCol(i)..(BlockCol(i) + 2)}

\* the cells the solved-scan visits for the Solved cell i
Touched == [i \in Cells |-> RowCells(i) \cup ColCells(i) \cup BlockCells(i)]

MinOf(S) == CHOOSE x \in S : \A y \in S : x <= y

MaxOf(S) == CHOOSE x \in S : \A y \in S : x >= y

----------------------------------------------------------------------------
(* Results and messages *)

NoBoard == <<>>

NoMsg == [text |-> "", at |-> <<>>]

Unsolvable(i) == [text |-> "unsolvable cell at", at |-> <<i>>]

Duplicate(i) == [text |-> "duplicate cell at", at |-> <<i>>]

DuplicateBlock(col, row) == [text |-> "duplicate cell at", at |-> <<col, row>>]

Exhausted == [text |-> "all assumptions contradicted", at |-> <<>>]

NoRet == [tag |-> "None", board |-> NoBoard, msg |-> NoMsg]

Ok(b) == [tag |-> "Ok", board |-> b, msg |-> NoMsg]

Err(m) == [tag |-> "Err", board |-> NoBoard, msg |-> m]

----------------------------------------------------------------------------
(* eliminate *)

\* Removed with the column loop of the solved-scan left out
RemovedNoColumn(board, j) ==
    {board[i].n : i \in {k \in Cells : /\ IsSolved(board[k])
                                        /\ j \in RowCells(k) \cup BlockCells(k)}}

\* the answers the solved-scan removes from the hints of cell j
Removed(board, j) ==
    {board[i].n : i \in {k \in Cells : IsSolved(board[k]) /\ j \in Touched[k]}}

\* SolvedScan with a scan that treats a Solved cell holding the answer as a
\* conflict and empties it, without skipping the scanned cell itself
SolvedScanSelf(board) ==
    [board  |-> [j \in Cells |->
                    IF IsSolved(board[j])
                    THEN IF \E k \in Cells : /\ IsSolved(board[k])
                                             /\ j \in Touched[k]
                                             /\ board[k].n = board[j].n
                         THEN NotSolved({})
                         ELSE board[j]
                    ELSE NotSolved(board[j].hints \ Removed(board, j))],
     solved |-> \A i \in Cells : IsSolved(board[i])]

\* first loop of a pass: every Solved cell's answer leaves the hints of the
\* NotSolved cells of its row, column and block; solved iff no cell is NotSolved
SolvedScan(board) ==
    [board  |-> [j \in Cells |->
                    IF IsSolved(board[j]) THEN board[j]
                    ELSE NotSolved(board[j].hints \ Removed(board, j))],
     solved |-> \A i \in Cells : IsSolved(board[i])]

\* a NotSolved cell with exactly one hint
IsSingle(c) == ~IsSolved(c) /\ Cardinality(c.hints) = 1

\* cell j of the board when the second loop of a pass over board reaches cell
\* i without having returned: the NotSolved cells below i that had one hint
\* are Solved with it (a promotion changes no hints, so whether a cell has one
\* hint does not depend on the promotions before it)
PromotedCell(board, i, j) ==
    IF j < i /\ IsSingle(board[j]) THEN Solved(MinOf(board[j].hints))
    ELSE board[j]

PromotedBelow(board, i) == [j \in Cells |-> PromotedCell(board, i, j)]

\* matches!(board[j], Cell::Solved(n) if n == hint) when the loop is at cell i
HasAnswer(board, i, j, hint) ==
    IsSolved(PromotedCell(board, i, j)) /\ PromotedCell(board, i, j).n = hint

\* DuplicateCheck with the guard n == hint of the row loop left out
DuplicateCheckAny(board, i, hint) ==
    LET inRow == {j \in RowCells(i) : IsSolved(PromotedCell(board, i, j))}
    IN  IF inRow # {} THEN Duplicate(MinOf(inRow)) ELSE NoMsg

\* the duplicate checks before the promotion of cell i: row, then column,
\* then block, each in index order
DuplicateCheck(board, i, hint) ==
    LET inRow == {j \in RowCells(i) : HasAnswer(board, i, j, hint)}
        inCol == {j \in ColCells(i) : HasAnswer(board, i, j, hint)}
        inBlk == {j \in BlockCells(i) : HasAnswer(board, i, j, hint)}
    IN  IF inRow # {} THEN Duplicate(MinOf(inRow))
        ELSE IF inCol # {} THEN Duplicate(MinOf(inCol))
        ELSE IF inBlk # {}
             THEN DuplicateBlock(ColOf(MinOf(inBlk)), RowOf(MinOf(inBlk)))
        ELSE NoMsg

\* FailureAt without the is_empty test: a cell without hints is skipped
FailureAtNoEmpty(board, i) ==
    IF IsSolved(board[i]) THEN NoMsg
    ELSE IF Cardinality(board[i].hints) # 1 THEN NoMsg
    ELSE DuplicateCheck(board, i, MinOf(board[i].hints))

\* the message the second loop returns at cell i, NoMsg when it goes on
FailureAt(board, i) ==
    IF IsSolved(board[i]) THEN NoMsg
    ELSE IF board[i].hints = {} THEN Unsolvable(i)
    ELSE IF Cardinality(board[i].hints) # 1 THEN NoMsg
    ELSE DuplicateCheck(board, i, MinOf(board[i].hints))

\* the cell at which the second loop returns a message, 81 when it ends
StopCell(board) ==
    IF \A i \in Cells : FailureAt(board, i) = NoMsg THEN 81
    ELSE MinOf({i \in Cells : FailureAt(board, i) # NoMsg})

\* PromotionScan that never sets changed
PromotionScanUnchanged(board) ==
    LET Scan(stop) ==
            [msg     |-> IF stop = 81 THEN NoMsg ELSE FailureAt(board, stop),
             board   |-> PromotedBelow(board, stop),
             changed |-> FALSE]
    IN  CHOOSE r \in {Scan(stop) : stop \in {StopCell(board)}} : TRUE

\* PromotionScan that sets changed whether or not a cell was promoted
PromotionScanChanged(board) ==
    LET Scan(stop) ==
            [msg     |-> IF stop = 81 THEN NoMsg ELSE FailureAt(board, stop),
             board   |-> PromotedBelow(board, stop),
             changed |-> TRUE]
    IN  CHOOSE r \in {Scan(stop) : stop \in {StopCell(board)}} : TRUE

\* second loop of a pass: in index order, fail at the first cell without
\* hints or whose only hint a Solved cell of its row, column or block holds,
\* else promote the cell when it has one hint; changed iff a cell was promoted
\* (the singleton set gives the cell where the loop stops a name)
PromotionScan(board) ==
    LET Scan(stop) ==
            [msg     |-> IF stop = 81 THEN NoMsg ELSE FailureAt(board, stop),
             board   |-> PromotedBelow(board, stop),
             changed |-> \E j \in 0..(stop - 1) : IsSingle(board[j])]
    IN  CHOOSE r \in {Scan(stop) : stop \in {StopCell(board)}} : TRUE

----------------------------------------------------------------------------
(* depth_first_search *)

\* Selects with <= for <: a later cell with as few hints replaces the choice
SelectsLast(board, i) ==
    /\ ~IsSolved(board[i])
    /\ \A j \in 0..(i - 1) :
          IsSolved(board[j])
          \/ Cardinality(board[i].hints) <= Cardinality(board[j].hints)

\* the selection loop assigns index at cell i: the cell is NotSolved and hits
\* is None or holds more hints; hits holds the fewest hints met so far, so
\* every NotSolved cell below i has more hints than cell i
Selects(board, i) ==
    /\ ~IsSolved(board[i])
    /\ \A j \in 0..(i - 1) :
          IsSolved(board[j])
          \/ Cardinality(board[i].hints) < Cardinality(board[j].hints)

\* the cell depth_first_search branches on, the last one the loop assigned to
\* index; -1 when hits stays None
SelectCell(board) ==
    IF \A i \in Cells : IsSolved(board[i]) THEN -1
    ELSE MaxOf({i \in Cells : Selects(board, i)})

\* NextHint iterating the hints from the largest down
NextHintDescending(hints) == MaxOf(hints)

\* for hint in hints: a BTreeSet yields its smallest remaining element
NextHint(hints) == MinOf(hints)

\* Assume with index left at its initial value 0
AssumeStale(board, index, hint) == [board EXCEPT ![0] = Solved(hint)]

\* board[index] = Cell::Solved(hint) on a clone of init
Assume(board, index, hint) == [board EXCEPT ![index] = Solved(hint)]

----------------------------------------------------------------------------
(* Inputs *)

\* a solved grid; the inputs are this grid with cells blanked or overwritten
Grid ==
    << 5,3,4,6,7,8,9,1,2,
       6,7,2,1,9,5,3,4,8,
       1,9,8,3,4,2,5,6,7,
       8,5,9,7,6,1,4,2,3,
       4,2,6,8,5,3,7,9,1,
       7,1,3,9,2,4,8,5,6,
       9,6,1,5,3,7,2,8,4,
       2,8,7,4,1,9,6,3,5,
       3,4,5,2,8,6,1,7,9 >>

\* three hole patterns of Grid: with all of its cells blanked the first one
\* stalls the propagation although Grid is its only completion, and the third
\* leaves two completions
HoleSeeds ==
    { {30, 34, 39, 42, 49, 51, 60, 61, 75, 76, 79},
      {2, 8, 11, 15, 16, 34, 35, 60, 62},
      {37, 38, 44, 46, 53, 55, 56} }

MaxHoles == 2

MaxFilled == 2

\* the sets of blanked cells: at most MaxHoles cells of a seed, or a seed with
\* at most MaxFilled of its cells left as givens
HoleSets ==
    UNION {{H \in SUBSET S : \/ Cardinality(H) <= MaxHoles
                             \/ Cardinality(S \ H) <= MaxFilled}
           : S \in HoleSeeds}

NoEdit == <<>>

\* <<cell, digit>>: a digit written over one cell of the file
Edits == {NoEdit, <<8, 4>>, <<27, 2>>, <<33, 1>>, <<33, 3>>}

\* the 81 digits of the file: Grid with the cells of H set to 0 and then the
\* cell named by the edit e overwritten with its digit
Digits(H, e) ==
    [k \in 1..81 |->
        IF e # NoEdit /\ e[1] = k - 1 THEN e[2]
        ELSE IF (k - 1) \in H THEN 0
        ELSE Grid[k]]

Inputs == {Digits(H, e) : H \in HoleSets, e \in Edits}

----------------------------------------------------------------------------
(* The call stack *)

Frame(pc, board) ==
    [pc |-> pc, board |-> board, index |-> -1, hints |-> {}, cur |-> 0]

Top == stack[Len(stack)]

Pop == SubSeq(stack, 1, Len(stack) - 1)

SetTop(f) == [stack EXCEPT ![Len(stack)] = f]

Init ==
    /\ entry \in {"solve", "depth_first_search"}
    /\ input \in Inputs
    /\ stack = <<Frame(IF entry = "solve" THEN "eliminate" ELSE "search",
                       BoardFrom(input))>>
    /\ ret = NoRet
    /\ run = 1
    /\ out1 = NoRet

\* one pass of the loop of eliminate in the running solve; solve returns the
\* board when eliminate solved it, the message when eliminate failed, and goes
\* on to depth_first_search when eliminate stalled
Eliminate ==
    /\ stack # <<>>
    /\ ret = NoRet
    /\ Top.pc = "eliminate"
    /\ \E s \in {SolvedScan(Top.board)} : \E p \in {PromotionScan(s.board)} :
          IF s.solved
          THEN stack' = Pop /\ ret' = Ok(s.board)
          ELSE IF p.msg # NoMsg
          THEN stack' = Pop /\ ret' = Err(p.msg)
          ELSE IF ~p.changed
          THEN /\ stack' = SetTop([Top EXCEPT !.pc = "search",
                                              !.board = p.board])
               /\ ret' = ret
          ELSE /\ stack' = SetTop([Top EXCEPT !.board = p.board])
               /\ ret' = ret
    /\ UNCHANGED <<entry, input, run, out1>>

\* depth_first_search picks its cell, or returns init when none is NotSolved
Select ==
    /\ stack # <<>>
    /\ ret = NoRet
    /\ Top.pc = "search"
    /\ \E index \in {SelectCell(Top.board)} :
           IF index = -1
           THEN stack' = Pop /\ ret' = Ok(Top.board)
           ELSE /\ stack' = SetTop([Top EXCEPT !.pc = "try",
                                               !.index = index,
                                               !.hints = Top.board[index].hints])
                /\ ret' = ret
    /\ UNCHANGED <<entry, input, run, out1>>

\* the next hint of the loop is assumed on a clone and solve is called on it
Try ==
    /\ stack # <<>>
    /\ ret = NoRet
    /\ Top.pc = "try"
    /\ Top.hints # {}
    /\ \E hint \in {NextHint(Top.hints)} :
           stack' = Append(SetTop([Top EXCEPT !.hints = Top.hints \ {hint},
                                              !.cur = hint]),
                           Frame("eliminate",
                                 Assume(Top.board, Top.index, hint)))
    /\ UNCHANGED <<entry, input, ret, run, out1>>

\* the loop over the hints ran out
Exhaust ==
    /\ stack # <<>>
    /\ ret = NoRet
    /\ Top.pc = "try"
    /\ Top.hints = {}
    /\ stack' = Pop
    /\ ret' = Err(Exhausted)
    /\ UNCHANGED <<entry, input, run, out1>>

\* the recursive solve succeeded: depth_first_search and its solve return it
ReturnOk ==
    /\ stack # <<>>
    /\ ret.tag = "Ok"
    /\ stack' = Pop
    /\ UNCHANGED <<entry, input, ret, run, out1>>

\* the recursive solve failed: the message is logged and the loop goes on
ReturnErr ==
    /\ stack # <<>>
    /\ ret.tag = "Err"
    /\ ret' = NoRet
    /\ UNCHANGED <<entry, input, stack, run, out1>>

\* the caller runs solve on the board its first call returned
Again ==
    /\ stack = <<>>
    /\ run = 1
    /\ ret.tag = "Ok"
    /\ out1' = ret
    /\ run' = 2
    /\ ret' = NoRet
    /\ stack' = <<Frame("eliminate", ret.board)>>
    /\ UNCHANGED <<entry, input>>

Next ==
    \/ Eliminate
    \/ Select
    \/ Try
    \/ Exhaust
    \/ ReturnOk
    \/ ReturnErr
    \/ Again

Spec == Init /\ [][Next]_vars

LiveSpec == Spec /\ WF_vars(Next)

----------------------------------------------------------------------------
(* Vocabulary of the properties, defined from the rules of the puzzle *)

Rows == {{(r * 9) + c : c \in 0..8} : r \in 0..8}

Columns == {{(r * 9) + c : r \in 0..8} : c \in 0..8}

Blocks ==
    {{((br * 3 + r) * 9) + (bc * 3 + c) : r \in 0..2, c \in 0..2}
     : br \in 0..2, bc \in 0..2}

Units == Rows \cup Columns \cup Blocks

\* the other cells of the row, the column and the block of cell i
Peers == [i \in Cells |-> UNION {u \in Units : i \in u} \ {i}]

\* no two given digits of a row, column or block are equal
Consistent(digits) ==
    \A u \in Units : \A i, j \in u :
        (i # j /\ digits[i + 1] # 0) => digits[i + 1] # digits[j + 1]

\* every row, column and block holds each of 1..9 (hence exactly once)
ValidGrid(digits) ==
    \A u \in Units : {digits[i + 1] : i \in u} = Hints

RECURSIVE Fill(_)
\* every way to give the zero cells of digits a digit that none of the peers
\* holds, kept when the filled grid is valid
Fill(digits) ==
    LET zeros == {i \in Cells : digits[i + 1] = 0}
    IN  IF zeros = {}
        THEN IF ValidGrid(digits) THEN {digits} ELSE {}
        ELSE LET i    == MinOf(zeros)
                 used == {digits[j + 1] : j \in Peers[i]}
             IN  UNION {Fill([digits EXCEPT ![i + 1] = v]) : v \in Hints \ used}

\* the valid grids that keep every given digit
Completions(digits) == Fill(digits)

AllSolved(board) == \A i \in Cells : IsSolved(board[i])

Unsolved(board) == {i \in Cells : ~IsSolved(board[i])}

\* the digits of a board, 0 for a NotSolved cell
DigitsOf(board) ==
    [k \in 1..81 |-> IF IsSolved(board[k - 1]) THEN board[k - 1].n ELSE 0]

\* the answers held by the Solved peers of cell j
PeerAnswers(board, j) == {board[i].n : i \in {k \in Peers[j] : IsSolved(board[k])}}

\* the first call, made through solve, has returned
SolveReturned == entry = "solve" /\ run = 1 /\ stack = <<>>

\* the top frame is about to run a pass of eliminate
InEliminate == stack # <<>> /\ ret = NoRet /\ Top.pc = "eliminate"

----------------------------------------------------------------------------
(* Properties of solve *)

\* C1: when solve returns on an input whose givens are consistent and which
\* has exactly one valid completion, it returns success with a board whose 81
\* cells are Solved and whose rows, columns and blocks each hold 1..9 once.
C1_UniquePuzzleSolved ==
    (SolveReturned /\ Consistent(input)
        /\ Cardinality(Completions(input)) = 1)
    => /\ ret.tag = "Ok"
       /\ AllSolved(ret.board)
       /\ ValidGrid(DigitsOf(ret.board))

\* solve has returned the completion of the first seed with all its cells
\* blanked, which propagation alone does not solve
C1_Witness ==
    /\ SolveReturned
    /\ input = Digits({30, 34, 39, 42, 49, 51, 60, 61, 75, 76, 79}, NoEdit)
    /\ ret.tag = "Ok"
    /\ DigitsOf(ret.board) = Grid

\* C2: when solve returns on an input in which two givens of a row, column or
\* block are equal, it returns a failure with a "duplicate cell at" message.
C2_DuplicateGivensRejected ==
    (SolveReturned /\ ~Consistent(input))
    => (ret.tag = "Err" /\ ret.msg.text = "duplicate cell at")

\* C4: when solve fails on an input whose givens are consistent, the input
\* has no valid completion.
C4_FailureMeansNoCompletion ==
    (SolveReturned /\ Consistent(input) /\ ret.tag = "Err")
    => Completions(input) = {}

\* solve has failed by exhausting the search on consistent givens
C4_Witness ==
    /\ SolveReturned
    /\ Consistent(input)
    /\ ret = Err(Exhausted)

\* C5: solve run on the board a successful solve returned succeeds with the
\* same board, and a fully solved valid input comes back with no cell changed.
C5_Idempotent ==
    /\ (entry = "solve" /\ run = 2 /\ stack = <<>>) => ret = out1
    /\ (SolveReturned /\ ValidGrid(input)) => ret = Ok(BoardFrom(input))

\* the second call has returned for an input that had cells to solve
C5_Witness ==
    /\ entry = "solve"
    /\ run = 2
    /\ stack = <<>>
    /\ ret.tag = "Ok"
    /\ \E k \in 1..81 : input[k] = 0

----------------------------------------------------------------------------
(* Properties of eliminate *)

\* the NotSolved cells whose hints are all held by Solved peers
EmptyAfterScan(board) ==
    {j \in Unsolved(board) : board[j].hints \subseteq PeerAnswers(board, j)}

\* the Solved peers of NotSolved cell j leave it the single hint v
SingleAfterScan(board, j, v) ==
    j \in Unsolved(board) /\ board[j].hints \ PeerAnswers(board, j) = {v}

\* two peers below cell e are left with the same single hint
ClashBelow(board, e) ==
    \E i \in 0..(e - 1) : \E j \in Peers[i] : \E v \in Hints :
        j < i /\ SingleAfterScan(board, i, v) /\ SingleAfterScan(board, j, v)

\* the eliminate call of the top-level solve starts a pass that leaves a
\* NotSolved cell without hints
TopPassEmpties ==
    /\ entry = "solve"
    /\ run = 1
    /\ Len(stack) = 1
    /\ InEliminate
    /\ EmptyAfterScan(Top.board) # {}

\* C3 as stated: when a pass of the top-level eliminate leaves a NotSolved
\* cell without hints, solve fails with an "unsolvable cell at" message.
C3_EmptyCellIsUnsolvable ==
    [][TopPassEmpties
       => (stack' = <<>> /\ ret'.tag = "Err"
           /\ ret'.msg.text = "unsolvable cell at")]_vars

\* C3 amended: when a pass of the top-level eliminate leaves a NotSolved cell
\* without hints, solve fails; the message is "unsolvable cell at I" for the
\* lowest such cell I unless two peers of lower index than I are left with
\* the same single hint, and then it is a "duplicate cell at" message.
C3_EmptyCellFails ==
    [][TopPassEmpties
       => LET e == MinOf(EmptyAfterScan(Top.board))
          IN  /\ stack' = <<>>
              /\ ret'.tag = "Err"
              /\ IF ClashBelow(Top.board, e)
                 THEN ret'.msg.text = "duplicate cell at"
                 ELSE ret'.msg = Unsolvable(e)]_vars

\* solve has failed on an unsolvable cell of a board whose givens already
\* cover the hints of a zero cell
C3_Witness ==
    /\ SolveReturned
    /\ ret.tag = "Err"
    /\ ret.msg.text = "unsolvable cell at"
    /\ EmptyAfterScan(BoardFrom(input)) # {}

\* no NotSolved cell keeps the answer of a Solved peer among its hints
Propagated(board) ==
    \A j \in Unsolved(board) : board[j].hints \cap PeerAnswers(board, j) = {}

\* C8: the board of a successful return of eliminate has no NotSolved cell
\* with the answer of a Solved peer among its hints, and when eliminate
\* returns stalled every NotSolved cell has at least two hints.
C8_EliminateResult ==
    [][InEliminate
       => /\ (Len(stack') = Len(stack) /\ stack'[Len(stack)].pc = "search")
                => LET b == stack'[Len(stack)].board
                   IN  /\ Propagated(b)
                       /\ \A j \in Unsolved(b) : Cardinality(b[j].hints) >= 2
          /\ ret'.tag = "Ok" => Propagated(ret'.board)]_vars

\* eliminate has just returned stalled to a solve
C8_Witness ==
    /\ entry = "solve"
    /\ stack # <<>>
    /\ ret = NoRet
    /\ Top.pc = "search"
    /\ Cardinality(Unsolved(Top.board)) >= 2

----------------------------------------------------------------------------
(* Properties of depth_first_search *)

\* C6: depth_first_search branches on the NotSolved cell with the fewest
\* hints, the lowest-indexed one among those; when no cell is NotSolved it
\* returns its board without assuming anything.
C6_FewestHintsFirst ==
    [][(stack # <<>> /\ ret = NoRet /\ Top.pc = "search")
       => LET b == Top.board
          IN  IF Unsolved(b) = {}
              THEN stack' = Pop /\ ret' = Ok(b)
              ELSE /\ Len(stack') = Len(stack)
                   /\ ret' = NoRet
                   /\ LET f == stack'[Len(stack)]
                      IN  /\ f.pc = "try"
                          /\ f.board = b
                          /\ f.index \in Unsolved(b)
                          /\ f.hints = b[f.index].hints
                          /\ \A j \in Unsolved(b) :
                                \/ Cardinality(b[j].hints)
                                      > Cardinality(b[f.index].hints)
                                \/ /\ Cardinality(b[j].hints)
                                        = Cardinality(b[f.index].hints)
                                   /\ j >= f.index]_vars

\* the cell chosen is not the first NotSolved cell and ties with a later one
C6_Witness ==
    /\ stack # <<>>
    /\ Top.pc = "try"
    /\ \E j \in Unsolved(Top.board) :
          /\ j < Top.index
          /\ Cardinality(Top.board[j].hints)
                > Cardinality(Top.board[Top.index].hints)
    /\ \E j \in Unsolved(Top.board) :
          /\ j > Top.index
          /\ Cardinality(Top.board[j].hints)
                = Cardinality(Top.board[Top.index].hints)

\* the hints of the chosen cell still to be tried are those above the last one
\* tried
AscendingFrames(st) ==
    \A k \in 1..Len(st) :
        st[k].pc = "try"
        => st[k].hints = {h \in st[k].board[st[k].index].hints : h > st[k].cur}

\* C7: the hints of the chosen cell are tried in ascending order, each on a
\* copy of the board depth_first_search received and only once the solve of
\* the one before has failed; the first successful solve is returned and no
\* further hint is tried.
C7_AscendingFirstSuccess ==
    [][/\ AscendingFrames(stack')
       /\ Len(stack') > Len(stack) /\ stack # <<>>
            => LET p == Top
                   q == stack'[Len(stack)]
                   c == stack'[Len(stack')]
               IN  /\ ret = NoRet /\ ret' = NoRet
                   /\ Len(stack') = Len(stack) + 1
                   /\ p.pc = "try"
                   /\ q.cur \in p.hints
                   /\ \A h \in p.hints : q.cur <= h
                   /\ q.cur > p.cur
                   /\ q.board = p.board /\ q.index = p.index
                   /\ c.pc = "eliminate"
                   /\ c.board = [p.board EXCEPT ![p.index] = Solved(q.cur)]
       /\ (stack # <<>> /\ ret.tag = "Ok")
            => (stack' = Pop /\ ret' = ret)]_vars

\* a recursive solve has succeeded after a smaller hint failed and with a
\* larger hint left untried
C7_Witness ==
    /\ stack # <<>>
    /\ ret.tag = "Ok"
    /\ Top.pc = "try"
    /\ Top.hints # {}
    /\ \E h \in Top.board[Top.index].hints : h < Top.cur

----------------------------------------------------------------------------
(* Termination and frame *)

Done == stack = <<>> /\ (run = 2 \/ ret.tag = "Err")

\* C9: every call of solve returns; a pass of eliminate that does not return
\* solves at least one cell, every assumed board has fewer NotSolved cells
\* than the board it was cloned from, and at most 81 assumptions are nested.
C9_Terminates ==
    /\ <>Done
    /\ [][(InEliminate /\ Len(stack') = Len(stack)
             /\ stack'[Len(stack)].pc = "eliminate")
          => Cardinality(Unsolved(stack'[Len(stack)].board))
                < Cardinality(Unsolved(Top.board))]_vars
    /\ [](/\ Len(stack) - 1 <= 81
          /\ \A k \in 2..Len(stack) :
                Cardinality(Unsolved(stack[k].board))
                    < Cardinality(Unsolved(stack[k - 1].board)))

\* two assumptions are nested and the innermost solve is in its second pass
C9_Witness ==
    /\ Len(stack) >= 3
    /\ InEliminate
    /\ Cardinality(Unsolved(Top.board))
          < Cardinality(Unsolved(stack[Len(stack) - 1].board)) - 1

\* board b keeps every Solved cell of board a and only shrinks or solves its
\* NotSolved cells
Refines(b, a) ==
    \A i \in Cells :
        IF IsSolved(a[i]) THEN b[i] = a[i]
        ELSE IsSolved(b[i]) \/ b[i].hints \subseteq a[i].hints

\* the given digits are Solved with their value in board b
KeepsGivens(b) ==
    \A i \in Cells : input[i + 1] # 0 => b[i] = Solved(input[i + 1])

\* C10: the givens stay Solved with their value in every board of the search
\* and in the board returned; a step only shrinks the hints of NotSolved cells
\* or turns them Solved, in the boards it keeps and in the one it clones.
C10_GivensKept ==
    /\ [](/\ \A k \in 1..Len(stack) : KeepsGivens(stack[k].board)
          /\ ret.tag = "Ok" => KeepsGivens(ret.board))
    /\ [][/\ \A k \in 1..Len(stack) :
                k <= Len(stack') => Refines(stack'[k].board, stack[k].board)
          /\ Len(stack') > Len(stack) /\ stack # <<>>
                => Refines(stack'[Len(stack')].board, Top.board)
          /\ (stack # <<>> /\ ret = NoRet /\ ret'.tag = "Ok")
                => Refines(ret'.board, Top.board)]_vars

\* an assumed board is being propagated next to a given digit
C10_Witness ==
    /\ Len(stack) >= 2
    /\ InEliminate
    /\ \E k \in 1..81 : input[k] # 0
    /\ Unsolved(Top.board) # Unsolved(stack[1].board)

====
